---- MODULE Spec2Model ----
(***************************************************************************)
(* A model of batlabcache.py: the on-disk cache of monthly batlab overview *)
(* pages (datespace, BatlabCache) and the overview table parser            *)
(* (OverviewParser).                                                       *)
(***************************************************************************)
EXTENDS Integers, Sequences, FiniteSets, TLC

\* ------------------------------------------------------------------------
\* Bounds of the model
\* ------------------------------------------------------------------------

\* number of consecutive calendar months the cache model ranges over
NumKeys == 2

\* number of years the datespace inputs are drawn from
NumYears == 3

\* per page: recognized rows, text tokens accumulated, values recorded
MaxRows == 1
MaxText == 2
MaxEntries == 1

\* ------------------------------------------------------------------------
\* Variables
\* ------------------------------------------------------------------------

VARIABLES
    now,        \* time.gmtime(): the present UTC (tm_year, tm_mon)
    files,      \* the cache directory: file name -> content, or Absent
    op,         \* the public method of BatlabCache that is executing / executed last
    range,      \* its arguments (start_year, start_month, stop_year, stop_month)
    todo,       \* ensure_dates: the months datespace has still to yield
    stack,      \* the download_month frames on the call stack, outermost first
    result,     \* "none", "running", "ok" or the exception that reached the caller
    dm,         \* the latest outermost download_month call: attempts, outcome
    log,        \* months for which this call invoked download_month, in order
    before,     \* the cache directory as it was when this call started
    served,     \* file name -> the page the latest successful urlopen for it returned
    nensure,    \* file name -> downloads ensure_dates started for it while no urlopen had failed
    failed,     \* some urlopen has failed so far
    dsin,       \* datespace: the arguments
    dsout,      \* datespace: whether it has run, and the months it yielded
    urlout,     \* overview_url(dsin[1], dsin[2]): whether it has run, what it built
    data,       \* OverviewParser.data: field name -> list of parsed values
    inrow,      \* OverviewParser.inrow
    col,        \* OverviewParser.col
    incol,      \* OverviewParser.incol
    nrows,      \* OverviewParser.nrows
    coldata,    \* OverviewParser.coldata
    raised,     \* the exception that left feed(), or "none"
    skipping,   \* the latest <tr> was not a recognized row and has not ended
    npieces,    \* the number of text tokens accumulated into coldata so far
    opened,     \* a <td> opened a column that got no text and no </td> since
    earlier,    \* an earlier parser of this run has recorded values
    alone,      \* a parser that is fed the tokens of the current page only
    dfs,        \* overview: the DataFrames of the pages parsed so far
    df          \* overview: the DataFrame it returned

cachevars == <<now, files, op, range, todo, stack, result, dm, log, before,
               served, nensure, failed>>
dsvars    == <<dsin, dsout, urlout>>
parservars == <<data, inrow, col, incol, nrows, coldata, raised, skipping,
                npieces, opened, earlier, alone>>
ovvars    == <<dfs, df>>
vars      == <<now, files, op, range, todo, stack, result, dm, log, before,
               served, nensure, failed, dsin, dsout, urlout,
               data, inrow, col, incol, nrows, coldata, raised, skipping,
               npieces, opened, earlier, alone, dfs, df>>

\* ------------------------------------------------------------------------
\* datespace
\* ------------------------------------------------------------------------

\* Python's range(a, b) as a sequence
PyRange(a, b) == [i \in 1..(IF b > a THEN b - a ELSE 0) |-> a + i - 1]

RECURSIVE Flatten(_)
Flatten(ss) == IF ss = <<>> THEN <<>> ELSE Head(ss) \o Flatten(Tail(ss))

\* a datespace that bounds the months of every year by stopm
MonthsOfYear_StopEveryYear(year, starty, startm, stopy, stopm) ==
    LET month1  == IF year = starty THEN startm ELSE 1
        months  == PyRange(month1, stopm + 1)
    IN  [i \in 1..Len(months) |-> <<year, months[i]>>]

\* the inner loop of datespace: the months yielded for one year
MonthsOfYear(year, starty, startm, stopy, stopm) ==
    LET month1  == IF year = starty THEN startm ELSE 1
        month12 == IF year = stopy THEN stopm ELSE 12
        months  == PyRange(month1, month12 + 1)
    IN  [i \in 1..Len(months) |-> <<year, months[i]>>]

\* generator of year and month tuples on inclusive bounds
datespace(starty, startm, stopy, stopm) ==
    LET years == PyRange(starty, stopy + 1)
    IN  Flatten([i \in 1..Len(years) |->
                    MonthsOfYear(years[i], starty, startm, stopy, stopm)])

\* ------------------------------------------------------------------------
\* BatlabCache
\* ------------------------------------------------------------------------

\* the months of the model: NumKeys consecutive months from December 2021
KeyOfIndex(n) == <<n \div 12, (n % 12) + 1>>
Keys == {KeyOfIndex(2021 * 12 + 11 + i) : i \in 0..(NumKeys - 1)}

\* default of download_month's retry parameter
Retry == 3

\* self.username of the cache under study, and the prefix __init__ makes of it
username == ""
usr == IF username # "" THEN username \o "_" ELSE ""

\* self.month_filename.format(year=year, month=month): "{year}-{month:02}.html"
month_filename(year, month) ==
    usr \o ToString(year) \o "-" \o (IF month < 10 THEN "0" ELSE "")
        \o ToString(month) \o ".html"

\* BatlabCache.overview_base_url
overview_base_url == "http://submit-1.batlab.org/nmi/results/overview?"

RECURSIVE Join(_, _)
\* sep.join(words)
Join(words, sep) ==
    IF words = <<>> THEN ""
    ELSE IF Len(words) = 1 THEN words[1]
    ELSE words[1] \o sep \o Join(Tail(words), sep)

\* '{year}-{month}-01', the numbers formatted without padding
FirstDay(year, month) == ToString(year) \o "-" \o ToString(month) \o "-01"

\* an overview_url that adds one to the month in every month of the year
NextMonth_NoRollover(year, month) == <<year, month + 1>>

\* nextyear, nextmonth = (year+1, 1) if month == 12 else (year, month+1)
NextMonth(year, month) ==
    IF month = 12 THEN <<year + 1, 1>> ELSE <<year, month + 1>>

\* the words of query['date']:
\* 'between {year}-{month}-01 and {nextyear}-{nextmonth}-01'
DateWords(year, month) ==
    LET next == NextMonth(year, month)
    IN  <<"between", FirstDay(year, month), "and", FirstDay(next[1], next[2])>>

\* query['date']
QueryDate(year, month) == Join(DateWords(year, month), " ")

\* self.overview_base_url + urlencode(query): the query keeps the order
\* storedSearch, user, date, and quote_plus turns each space into '+'
overview_url(year, month) ==
    overview_base_url \o "storedSearch=0" \o "&user=" \o username
        \o "&date=" \o Join(DateWords(year, month), "+")

FileNames == {month_filename(k[1], k[2]) : k \in Keys}

\* os.path.exists(fname) is false
Absent == "<absent>"

\* the texts urlopen(url).read().decode('utf-8') can return
Pages == {"<html>A</html>", "<html>B</html>"}

\* the content of a file opened with mode 'w' and not written to
Truncated == ""

\* exceptions that leave download_month
Errors == {"ConnectionResetError", "URLError", "UnboundLocalError"}

NoCall == [attempts |-> 0, resets |-> 0, ok |-> FALSE, last |-> "none",
           outcome |-> "none"]

Frame(year, month, retry, pc) ==
    [year |-> year, month |-> month, retry |-> retry, pc |-> pc]

Top == stack[Len(stack)]
TopName == month_filename(Top.year, Top.month)

Idle == result # "running"

\* the state a public method starts from
StartCall(name, args) ==
    /\ Idle
    /\ op' = name
    /\ range' = args
    /\ result' = "running"
    /\ before' = files
    /\ UNCHANGED <<now, files, served, nensure, failed>>

\* BatlabCache(year, month): __init__ calls ensure_dates up to the present month
Construct(year, month) ==
    /\ StartCall("__init__", <<year, month, now[1], now[2]>>)
    /\ todo' = datespace(year, month, now[1], now[2])
    /\ stack' = <<>>
    /\ log' = <<>>
    /\ dm' = NoCall
    /\ UNCHANGED <<dsvars, parservars, ovvars>>

\* ensure_dates(start_year, start_month, stop_year, stop_month) is called
CallEnsureDates(starty, startm, stopy, stopm) ==
    /\ StartCall("ensure_dates", <<starty, startm, stopy, stopm>>)
    /\ todo' = datespace(starty, startm, stopy, stopm)
    /\ stack' = <<>>
    /\ log' = <<>>
    /\ dm' = NoCall
    /\ UNCHANGED <<dsvars, parservars, ovvars>>

\* download_month(year, month) is entered with the default retry
EnterDownload(year, month) ==
    /\ stack' = <<Frame(year, month, Retry, "try")>>
    /\ log' = Append(log, <<year, month>>)
    /\ dm' = [NoCall EXCEPT !.outcome = "running"]

\* download_month(year, month) is called directly
CallDownloadMonth(year, month) ==
    /\ StartCall("download_month", <<year, month, year, month>>)
    /\ todo' = <<>>
    /\ stack' = <<Frame(year, month, Retry, "try")>>
    /\ log' = <<<<year, month>>>>
    /\ dm' = [NoCall EXCEPT !.outcome = "running"]
    /\ UNCHANGED <<dsvars, parservars, ovvars>>

\* download_this_month(): download_month of the present month
CallDownloadThisMonth ==
    /\ StartCall("download_this_month", <<now[1], now[2], now[1], now[2]>>)
    /\ todo' = <<>>
    /\ stack' = <<Frame(now[1], now[2], Retry, "try")>>
    /\ log' = <<now>>
    /\ dm' = [NoCall EXCEPT !.outcome = "running"]
    /\ UNCHANGED <<dsvars, parservars, ovvars>>

\* an ensure_dates that leaves its loop at the first month whose file exists
EnsureNext_StopAtExisting ==
    /\ result = "running"
    /\ op \in {"__init__", "ensure_dates"}
    /\ stack = <<>>
    /\ IF todo = <<>>
       THEN /\ result' = "ok"
            /\ UNCHANGED <<todo, stack, log, dm, nensure>>
       ELSE LET year  == Head(todo)[1]
                month == Head(todo)[2]
                fname == month_filename(year, month)
            IN  /\ todo' = IF files[fname] # Absent THEN <<>> ELSE Tail(todo)
                /\ result' = result
                /\ IF files[fname] # Absent
                   THEN UNCHANGED <<stack, log, dm, nensure>>
                   ELSE /\ EnterDownload(year, month)
                        /\ nensure' = [nensure EXCEPT ![fname] =
                              IF failed \/ @ = 2 THEN @ ELSE @ + 1]
    /\ UNCHANGED <<now, files, op, range, before, served, failed>>
    /\ UNCHANGED <<dsvars, parservars, ovvars>>

\* an ensure_dates that does not look for the file before downloading
EnsureNext_NoExistsCheck ==
    /\ result = "running"
    /\ op \in {"__init__", "ensure_dates"}
    /\ stack = <<>>
    /\ IF todo = <<>>
       THEN /\ result' = "ok"
            /\ UNCHANGED <<todo, stack, log, dm, nensure>>
       ELSE LET year  == Head(todo)[1]
                month == Head(todo)[2]
                fname == month_filename(year, month)
            IN  /\ todo' = Tail(todo)
                /\ result' = result
                /\ EnterDownload(year, month)
                /\ nensure' = [nensure EXCEPT ![fname] =
                      IF failed \/ @ = 2 THEN @ ELSE @ + 1]
    /\ UNCHANGED <<now, files, op, range, before, served, failed>>
    /\ UNCHANGED <<dsvars, parservars, ovvars>>

\* one iteration of the loop of ensure_dates, up to the call of download_month
EnsureNext ==
    /\ result = "running"
    /\ op \in {"__init__", "ensure_dates"}
    /\ stack = <<>>
    /\ IF todo = <<>>
       THEN /\ result' = "ok"
            /\ UNCHANGED <<todo, stack, log, dm, nensure>>
       ELSE LET year  == Head(todo)[1]
                month == Head(todo)[2]
                fname == month_filename(year, month)
            IN  /\ todo' = Tail(todo)
                /\ result' = result
                /\ IF files[fname] # Absent
                   THEN UNCHANGED <<stack, log, dm, nensure>>
                   ELSE /\ EnterDownload(year, month)
                        /\ nensure' = [nensure EXCEPT ![fname] =
                              IF failed \/ @ = 2 THEN @ ELSE @ + 1]
    /\ UNCHANGED <<now, files, op, range, before, served, failed>>
    /\ UNCHANGED <<dsvars, parservars, ovvars>>

\* an exception leaves the outermost download_month: no frame catches it (the
\* inner calls are made from the except block) and neither does ensure_dates
Raise(exception) ==
    /\ stack' = <<>>
    /\ result' = exception

\* urlopen and read succeed: the page is written to the file and the frame returns
UrlopenOk(page) ==
    /\ result = "running" /\ stack # <<>> /\ Top.pc = "try"
    /\ files' = [files EXCEPT ![TopName] = page]
    /\ served' = [served EXCEPT ![TopName] = page]
    /\ LET rest == SubSeq(stack, 1, Len(stack) - 1)
       IN  IF rest = <<>>
           THEN /\ stack' = <<>>
                /\ dm' = [dm EXCEPT !.attempts = @ + 1, !.ok = TRUE, !.last = "ok",
                                    !.outcome = "returned"]
                /\ result' = IF op \in {"__init__", "ensure_dates"}
                             THEN "running" ELSE "ok"
           ELSE \* the caller leaves its except block and goes on to the write
                /\ stack' = [rest EXCEPT ![Len(rest)].pc = "write"]
                /\ dm' = [dm EXCEPT !.attempts = @ + 1, !.ok = TRUE, !.last = "ok"]
                /\ result' = result
    /\ UNCHANGED <<now, op, range, todo, log, before, nensure, failed>>
    /\ UNCHANGED <<dsvars, parservars, ovvars>>

\* a handler that retries while retry >= 0: one attempt too many
UrlopenReset_RetryAtZero ==
    /\ result = "running" /\ stack # <<>> /\ Top.pc = "try"
    /\ failed' = TRUE
    /\ IF Top.retry >= 0
       THEN /\ stack' = Append([stack EXCEPT ![Len(stack)].pc = "except"],
                               Frame(Top.year, Top.month, Top.retry - 1, "try"))
            /\ dm' = [dm EXCEPT !.attempts = @ + 1, !.resets = @ + 1,
                                !.last = "reset"]
            /\ result' = result
       ELSE /\ Raise("ConnectionResetError")
            /\ dm' = [dm EXCEPT !.attempts = @ + 1, !.resets = @ + 1,
                                !.last = "reset",
                                !.outcome = "ConnectionResetError"]
    /\ UNCHANGED <<now, files, op, range, todo, log, before, served, nensure>>
    /\ UNCHANGED <<dsvars, parservars, ovvars>>

\* urlopen raises ConnectionResetError: retry while retry > 0, else re-raise
UrlopenReset ==
    /\ result = "running" /\ stack # <<>> /\ Top.pc = "try"
    /\ failed' = TRUE
    /\ IF Top.retry > 0
       THEN /\ stack' = Append([stack EXCEPT ![Len(stack)].pc = "except"],
                               Frame(Top.year, Top.month, Top.retry - 1, "try"))
            /\ dm' = [dm EXCEPT !.attempts = @ + 1, !.resets = @ + 1,
                                !.last = "reset"]
            /\ result' = result
       ELSE /\ Raise("ConnectionResetError")
            /\ dm' = [dm EXCEPT !.attempts = @ + 1, !.resets = @ + 1,
                                !.last = "reset",
                                !.outcome = "ConnectionResetError"]
    /\ UNCHANGED <<now, files, op, range, todo, log, before, served, nensure>>
    /\ UNCHANGED <<dsvars, parservars, ovvars>>

\* urlopen, read or decode raises anything else: no handler, it propagates
UrlopenOther ==
    /\ result = "running" /\ stack # <<>> /\ Top.pc = "try"
    /\ failed' = TRUE
    /\ Raise("URLError")
    /\ dm' = [dm EXCEPT !.attempts = @ + 1, !.last = "other",
                        !.outcome = "URLError"]
    /\ UNCHANGED <<now, files, op, range, todo, log, before, served, nensure>>
    /\ UNCHANGED <<dsvars, parservars, ovvars>>

\* a frame whose retry returned reaches "with io.open(fname, 'w')": the file is
\* opened (truncated), and f.write(page) finds the local page unbound
WriteAfterRetry ==
    /\ result = "running" /\ stack # <<>> /\ Top.pc = "write"
    /\ files' = [files EXCEPT ![TopName] = Truncated]
    /\ Raise("UnboundLocalError")
    /\ dm' = [dm EXCEPT !.outcome = "UnboundLocalError"]
    /\ UNCHANGED <<now, op, range, todo, log, before, served, nensure, failed>>
    /\ UNCHANGED <<dsvars, parservars, ovvars>>

\* the calendar moves on to the next month
Tick ==
    /\ KeyOfIndex(now[1] * 12 + now[2]) \in Keys
    /\ now' = KeyOfIndex(now[1] * 12 + now[2])
    /\ UNCHANGED <<files, op, range, todo, stack, result, dm, log, before,
                   served, nensure, failed>>
    /\ UNCHANGED <<dsvars, parservars, ovvars>>

\* no cache directory content, no call made yet
\* stop_year=None, stop_month=None: an argument that `or` replaces
NoStop == 0

\* a or b
PyOr(a, b) == IF a = NoStop THEN b ELSE a

\* pandas.DataFrame(op.data) after op.parse(fname): the rows of a cached
\* page, a function of the file's text alone; an empty file has no rows
PageRows(content) ==
    CASE content = "<html>A</html>" -> <<"A1", "A2">>
      [] content = "<html>B</html>" -> <<"B1">>
      [] content = Truncated -> <<>>

RECURSIVE AppendAll_Prepends(_, _)
\* frames joined with d.append(df) in place of df.append(d)
AppendAll_Prepends(frame, rest) ==
    IF rest = <<>> THEN frame
    ELSE AppendAll_Prepends(Head(rest) \o frame, Tail(rest))

RECURSIVE AppendAll(_, _)
\* for d in dfs[1:]: df = df.append(d) -- DataFrame.append returns the rows
\* of df followed by the rows of d
AppendAll(frame, rest) ==
    IF rest = <<>> THEN frame
    ELSE AppendAll(frame \o Head(rest), Tail(rest))

\* overview(year, month, stop_year, stop_month) is called
CallOverview(year, month, stop_year, stop_month) ==
    LET stopy == PyOr(stop_year, year)
        stopm == PyOr(stop_month, month)
    IN  /\ StartCall("overview", <<year, month, stopy, stopm>>)
        /\ todo' = datespace(year, month, stopy, stopm)
        /\ log' = <<>>
        /\ dfs' = <<>>
        /\ df' = <<>>
        /\ UNCHANGED <<stack, dm>>
        /\ UNCHANGED <<dsvars, parservars>>

\* one turn of overview's loop: the month's file is opened and parsed, and
\* io.open raises FileNotFoundError when the file does not exist
OverviewNext ==
    /\ result = "running"
    /\ op = "overview"
    /\ todo # <<>>
    /\ LET year  == Head(todo)[1]
           month == Head(todo)[2]
           fname == month_filename(year, month)
       IN  IF files[fname] = Absent
           THEN /\ result' = "FileNotFoundError"
                /\ todo' = <<>>
                /\ UNCHANGED <<log, dfs>>
           ELSE /\ dfs' = Append(dfs, PageRows(files[fname]))
                /\ log' = Append(log, <<year, month>>)
                /\ todo' = Tail(todo)
                /\ UNCHANGED result
    /\ UNCHANGED <<now, files, op, range, stack, dm, before, served, nensure,
                   failed, df>>
    /\ UNCHANGED <<dsvars, parservars>>

\* after the loop: df = dfs[0], which raises IndexError when no month was
\* parsed, then the other frames are appended and df is returned
OverviewReturn ==
    /\ result = "running"
    /\ op = "overview"
    /\ todo = <<>>
    /\ IF dfs = <<>>
       THEN result' = "IndexError" /\ UNCHANGED df
       ELSE result' = "ok" /\ df' = AppendAll(Head(dfs), Tail(dfs))
    /\ UNCHANGED <<now, files, op, range, todo, stack, dm, log, before, served,
                   nensure, failed, dfs>>
    /\ UNCHANGED <<dsvars, parservars>>

InitCache ==
    /\ now \in Keys
    /\ files = [f \in FileNames |-> Absent]
    /\ op = "none"
    /\ range = <<>>
    /\ todo = <<>>
    /\ stack = <<>>
    /\ result = "none"
    /\ dm = NoCall
    /\ log = <<>>
    /\ before = [f \in FileNames |-> Absent]
    /\ served = [f \in FileNames |-> Absent]
    /\ nensure = [f \in FileNames |-> 0]
    /\ failed = FALSE
    /\ dfs = <<>>
    /\ df = <<>>

\* ------------------------------------------------------------------------
\* OverviewParser
\* ------------------------------------------------------------------------

\* OverviewParser.statuses
statuses == {
    "tableRow0", "tableRow1",
    "tableRow0StatusInProgress", "tableRow1StatusInProgress",
    "tableRow0StatusInternalError", "tableRow1StatusInternalError",
    "tableRow0StatusSucceeded", "tableRow1StatusSucceeded",
    "tableRow0StatusFailed", "tableRow1StatusFailed",
    "tableRow0StatusRemoved", "tableRow1StatusRemoved",
    "tableRow0StatusNotCompleted", "tableRow1StatusNotCompleted",
    "tableRow0StatusError", "tableRow1StatusError",
    "tableRow0StatusTimedOut", "tableRow1StatusTimedOut" }

\* a None entry of OverviewParser.fields
NoField == "<None>"

\* OverviewParser.fields
fields == <<NoField, "id", "result", "user", "type", "project", NoField,
            "start", "duration", "description", "platforms">>

FieldNames == {"id", "result", "user", "type", "project", "start", "duration",
               "description", "platforms"}

\* Python values: None, a str (a sequence of pieces), an int, a datetime, and
\* the exception an expression raised instead of giving a value
None == <<"None">>
Str(s) == <<"str", s>>
IntV(n) == <<"int", n>>
DateTime(y, mo, d, h, mi, sec) == <<"datetime", y, mo, d, h, mi, sec>>
ValueError == <<"raise", "ValueError">>
Raises(v) == v[1] = "raise"

\* self.fields[col] raised IndexError
IndexError == "<IndexError>"

\* The pieces texts are made of.  Each is one character, except Stamp, which
\* stands for the 19 characters "2021-11-03 10:20:30"; NBSP is U+00A0, which
\* convert_charrefs makes of &nbsp;.
NBSP == "U+00A0"
Stamp == "2021-11-03 10:20:30"
Pieces == {"1", NBSP, Stamp}

IsSpace(c) == c \in {" ", NBSP}
IsDigit(c) == c \in {"0", "1", "2", "3", "4", "5", "6", "7", "8", "9"}
DigitValue(c) ==
    CASE c = "0" -> 0 [] c = "1" -> 1 [] c = "2" -> 2 [] c = "3" -> 3
      [] c = "4" -> 4 [] c = "5" -> 5 [] c = "6" -> 6 [] c = "7" -> 7
      [] c = "8" -> 8 [] c = "9" -> 9

\* str.strip()
RECURSIVE PyStrip(_)
PyStrip(s) ==
    IF s = <<>> THEN s
    ELSE IF IsSpace(Head(s)) THEN PyStrip(Tail(s))
    ELSE IF IsSpace(s[Len(s)]) THEN PyStrip(SubSeq(s, 1, Len(s) - 1))
    ELSE s

RECURSIVE DecimalValue(_)
DecimalValue(s) ==
    IF s = <<>> THEN 0
    ELSE 10 * DecimalValue(SubSeq(s, 1, Len(s) - 1)) + DigitValue(s[Len(s)])

\* int(s) of a str: surrounding whitespace is ignored, then decimal digits
PyInt(s) ==
    LET t == PyStrip(s)
    IN  IF t = <<>> \/ \E i \in 1..Len(t) : ~IsDigit(t[i])
        THEN ValueError
        ELSE IntV(DecimalValue(t))

\* s.split(sep): the list of the parts of s between the occurrences of sep
RECURSIVE PySplit(_, _)
PySplit(s, sep) ==
    IF \A i \in 1..Len(s) : s[i] # sep
    THEN <<s>>
    ELSE LET i == CHOOSE j \in 1..Len(s) :
                      s[j] = sep /\ \A k \in 1..(j - 1) : s[k] # sep
         IN  <<SubSeq(s, 1, i - 1)>> \o PySplit(SubSeq(s, i + 1, Len(s)), sep)

\* respace = lambda s: s.replace('\xa0', ' ')
respace(s) == [i \in 1..Len(s) |-> IF s[i] = NBSP THEN " " ELSE s[i]]

\* null = lambda x: x
null(x) == x

\* colparsers['id']
ParseId(s) ==
    IF \E i \in 1..Len(s) : s[i] = ">"
    THEN PyInt(PySplit(PySplit(s, ">")[2], "<")[1])
    ELSE PyInt(s)

\* colparsers['start']: datetime.strptime(s, "%Y-%m-%d %H:%M:%S").  Of the
\* texts made of Pieces, strptime accepts Stamp alone.
ParseStart(s) ==
    IF s = <<Stamp>> THEN DateTime(2021, 11, 3, 10, 20, 30) ELSE ValueError

RECURSIVE SumSeconds(_, _)
SumSeconds(parts, weights) ==
    IF parts = <<>> \/ weights = <<>> THEN IntV(0)
    ELSE LET x    == PyInt(Head(parts))
             rest == SumSeconds(Tail(parts), Tail(weights))
         IN  IF Raises(x) \/ Raises(rest) THEN ValueError
             ELSE IntV(x[2] * Head(weights) + rest[2])

\* colparsers['duration']
ParseDuration(s) == SumSeconds(PySplit(s, ":"), <<3600, 60, 1>>)

\* self.colparsers[colname](s)
colparsers(colname, s) ==
    CASE colname = "id" -> ParseId(s)
      [] colname \in {"result", "description", "platforms"} -> Str(respace(s))
      [] colname \in {"user", "type", "project"} -> Str(null(s))
      [] colname = "start" -> ParseStart(s)
      [] colname = "duration" -> ParseDuration(s)

\* self.fields[col]: Python tuple indexing, negative indices count from the end
FieldAt(c) ==
    IF 0 <= c /\ c < Len(fields) THEN fields[c + 1]
    ELSE IF c < 0 /\ -Len(fields) <= c THEN fields[Len(fields) + c + 1]
    ELSE IndexError

\* dict(attrs): 'class' in attrs, and attrs['class'] (the last one given)
HasClass(attrs) == \E i \in 1..Len(attrs) : attrs[i][1] = "class"
ClassOf(attrs) ==
    attrs[CHOOSE i \in 1..Len(attrs) :
              attrs[i][1] = "class"
              /\ \A j \in (i + 1)..Len(attrs) : attrs[j][1] # "class"][2]

\* the tokens fed to the parser
Tags == {"tr", "td", "a"}
AttrLists == {<<>>, <<<<"class", "tableRow1StatusFailed">>>>,
              <<<<"class", "tableHeader">>>>}
Texts == {<<p>> : p \in Pieces}

TotalEntries ==
    Len(data.id) + Len(data.result) + Len(data.user) + Len(data.type)
      + Len(data.project) + Len(data.start) + Len(data.duration)
      + Len(data.description) + Len(data.platforms)

\* OverviewParser(convert_charrefs=True): the constructor calls reset()
\* OverviewParser(): the attributes reset gives a new parser
NewParser ==
    [data |-> [f \in FieldNames |-> <<>>], inrow |-> FALSE, col |-> -1,
     incol |-> FALSE, nrows |-> 0, coldata |-> None, raised |-> "none"]

\* the attributes of the parser that is parsing
ThisParser ==
    [data |-> data, inrow |-> inrow, col |-> col, incol |-> incol,
     nrows |-> nrows, coldata |-> coldata, raised |-> raised]

\* handle_starttag on a parser with attributes p
starttag_on(p, tag, attrs) ==
    IF tag = "tr"
    THEN IF ~HasClass(attrs) \/ ClassOf(attrs) \notin statuses
         THEN p
         ELSE [p EXCEPT !.inrow = TRUE, !.nrows = @ + 1, !.col = -1]
    ELSE IF p.inrow /\ tag = "td"
         THEN [p EXCEPT !.col = @ + 1, !.incol = TRUE, !.coldata = None]
         ELSE p

\* handle_data on a parser with attributes p
data_on(p, text) ==
    IF p.inrow /\ p.incol
    THEN LET colname == FieldAt(p.col)
         IN  IF colname = IndexError THEN [p EXCEPT !.raised = "IndexError"]
             ELSE IF colname = NoField THEN p
             ELSE [p EXCEPT !.coldata = Str((IF @ = None THEN <<>> ELSE @[2])
                                            \o text)]
    ELSE p

\* handle_endtag on a parser with attributes p
endtag_on(p, tag) ==
    IF tag = "tr" /\ p.inrow
    THEN [p EXCEPT !.inrow = FALSE, !.col = -1]
    ELSE IF p.inrow /\ tag = "td"
         THEN LET q == [p EXCEPT !.incol = FALSE]
                  colname == FieldAt(p.col)
              IN  IF colname = IndexError THEN [q EXCEPT !.raised = "IndexError"]
                  ELSE IF colname = NoField THEN q
                  ELSE LET value == IF p.coldata = None THEN None
                                    ELSE colparsers(colname, p.coldata[2])
                       IN  IF Raises(value)
                           THEN [q EXCEPT !.raised = "ValueError"]
                           ELSE [q EXCEPT !.data[colname] = Append(@, value)]
         ELSE p

InitParser ==
    /\ data = [f \in FieldNames |-> <<>>]
    /\ inrow = FALSE
    /\ col = -1
    /\ incol = FALSE
    /\ nrows = 0
    /\ coldata = None
    /\ raised = "none"
    /\ skipping = FALSE
    /\ npieces = 0
    /\ opened = FALSE
    /\ earlier = FALSE
    /\ alone = NewParser

\* a parser that shares one data dict with the parsers made before it
reset_SharedData ==
    /\ data' = data
    /\ inrow' = FALSE
    /\ col' = -1
    /\ incol' = FALSE
    /\ nrows' = 0
    /\ coldata' = None
    /\ raised' = "none"
    /\ skipping' = FALSE
    /\ npieces' = 0
    /\ opened' = FALSE
    /\ earlier' = (earlier \/ TotalEntries > 0)
    /\ UNCHANGED <<cachevars, dsvars, ovvars>>

\* a new parser is made for the next page
reset ==
    /\ data' = [f \in FieldNames |-> <<>>]
    /\ inrow' = FALSE
    /\ col' = -1
    /\ incol' = FALSE
    /\ nrows' = 0
    /\ coldata' = None
    /\ raised' = "none"
    /\ skipping' = FALSE
    /\ npieces' = 0
    /\ opened' = FALSE
    /\ earlier' = (earlier \/ TotalEntries > 0)
    /\ UNCHANGED <<cachevars, dsvars, ovvars>>

\* handle_data keeping only the latest text token of a column
handle_data_LastTokenOnly(text) ==
    /\ raised = "none"
    /\ IF inrow /\ incol
       THEN LET colname == FieldAt(col)
            IN  IF colname = IndexError
                THEN raised' = "IndexError" /\ UNCHANGED <<coldata, npieces>>
                ELSE IF colname = NoField
                THEN UNCHANGED <<coldata, raised, npieces>>
                ELSE /\ npieces < MaxText
                     /\ npieces' = npieces + 1
                     /\ coldata' = Str(text)
                     /\ UNCHANGED raised
       ELSE UNCHANGED <<coldata, raised, npieces>>
    /\ opened' = IF inrow /\ incol THEN FALSE ELSE opened
    /\ UNCHANGED <<data, inrow, col, incol, nrows, skipping, earlier>>
    /\ UNCHANGED <<cachevars, dsvars, ovvars>>

\* handle_starttag whose <td> leaves the previous column's text in coldata
handle_starttag_KeepColdata(tag, attrs) ==
    /\ raised = "none"
    /\ IF tag = "tr"
       THEN IF ~HasClass(attrs) \/ ClassOf(attrs) \notin statuses
            THEN /\ skipping' = TRUE
                 /\ UNCHANGED <<inrow, nrows, col, incol, coldata, opened>>
            ELSE /\ nrows < MaxRows
                 /\ inrow' = TRUE
                 /\ nrows' = nrows + 1
                 /\ col' = -1
                 /\ skipping' = FALSE
                 /\ opened' = FALSE
                 /\ UNCHANGED <<incol, coldata>>
       ELSE IF inrow /\ tag = "td"
            THEN /\ col < Len(fields)
                 /\ col' = col + 1
                 /\ incol' = TRUE
                 /\ coldata' = coldata
                 /\ opened' = TRUE
                 /\ UNCHANGED <<inrow, nrows, skipping>>
            ELSE UNCHANGED <<inrow, nrows, col, incol, coldata, skipping, opened>>
    /\ UNCHANGED <<data, raised, npieces, earlier>>
    /\ UNCHANGED <<cachevars, dsvars, ovvars>>

\* a handle_starttag that takes any <tr> with a class for a recognized row
handle_starttag_AnyClass(tag, attrs) ==
    /\ raised = "none"
    /\ IF tag = "tr"
       THEN IF ~HasClass(attrs)
            THEN /\ skipping' = TRUE
                 /\ UNCHANGED <<inrow, nrows, col, incol, coldata, opened>>
            ELSE /\ nrows < MaxRows
                 /\ inrow' = TRUE
                 /\ nrows' = nrows + 1
                 /\ col' = -1
                 /\ skipping' = (ClassOf(attrs) \notin statuses)
                 /\ opened' = FALSE
                 /\ UNCHANGED <<incol, coldata>>
       ELSE IF inrow /\ tag = "td"
            THEN /\ col < Len(fields)
                 /\ col' = col + 1
                 /\ incol' = TRUE
                 /\ coldata' = None
                 /\ opened' = TRUE
                 /\ UNCHANGED <<inrow, nrows, skipping>>
            ELSE UNCHANGED <<inrow, nrows, col, incol, coldata, skipping, opened>>
    /\ UNCHANGED <<data, raised, npieces, earlier>>
    /\ UNCHANGED <<cachevars, dsvars, ovvars>>

handle_starttag(tag, attrs) ==
    /\ raised = "none"
    /\ IF tag = "tr"
       THEN IF ~HasClass(attrs) \/ ClassOf(attrs) \notin statuses
            THEN /\ skipping' = TRUE
                 /\ UNCHANGED <<inrow, nrows, col, incol, coldata, opened>>
            ELSE /\ nrows < MaxRows
                 /\ inrow' = TRUE
                 /\ nrows' = nrows + 1
                 /\ col' = -1
                 /\ skipping' = FALSE
                 /\ opened' = FALSE
                 /\ UNCHANGED <<incol, coldata>>
       ELSE IF inrow /\ tag = "td"
            THEN /\ col < Len(fields)
                 /\ col' = col + 1
                 /\ incol' = TRUE
                 /\ coldata' = None
                 /\ opened' = TRUE
                 /\ UNCHANGED <<inrow, nrows, skipping>>
            ELSE UNCHANGED <<inrow, nrows, col, incol, coldata, skipping, opened>>
    /\ UNCHANGED <<data, raised, npieces, earlier>>
    /\ UNCHANGED <<cachevars, dsvars, ovvars>>

handle_data(text) ==
    /\ raised = "none"
    /\ IF inrow /\ incol
       THEN LET colname == FieldAt(col)
            IN  IF colname = IndexError
                THEN raised' = "IndexError" /\ UNCHANGED <<coldata, npieces>>
                ELSE IF colname = NoField
                THEN UNCHANGED <<coldata, raised, npieces>>
                ELSE /\ npieces < MaxText
                     /\ npieces' = npieces + 1
                     /\ coldata' = Str((IF coldata = None THEN <<>>
                                        ELSE coldata[2]) \o text)
                     /\ UNCHANGED raised
       ELSE UNCHANGED <<coldata, raised, npieces>>
    /\ opened' = IF inrow /\ incol THEN FALSE ELSE opened
    /\ UNCHANGED <<data, inrow, col, incol, nrows, skipping, earlier>>
    /\ UNCHANGED <<cachevars, dsvars, ovvars>>

handle_endtag(tag) ==
    /\ raised = "none"
    /\ skipping' = IF tag = "tr" THEN FALSE ELSE skipping
    /\ opened' = IF inrow /\ tag \in {"tr", "td"} THEN FALSE ELSE opened
    /\ IF tag = "tr" /\ inrow
       THEN /\ inrow' = FALSE
            /\ col' = -1
            /\ UNCHANGED <<incol, data, raised>>
       ELSE IF inrow /\ tag = "td"
            THEN /\ incol' = FALSE
                 /\ UNCHANGED <<inrow, col>>
                 /\ LET colname == FieldAt(col)
                    IN  IF colname = IndexError
                        THEN raised' = "IndexError" /\ UNCHANGED data
                        ELSE IF colname = NoField
                        THEN UNCHANGED <<data, raised>>
                        ELSE LET value == IF coldata = None THEN None
                                          ELSE colparsers(colname, coldata[2])
                             IN  IF Raises(value)
                                 THEN raised' = "ValueError" /\ UNCHANGED data
                                 ELSE /\ TotalEntries < MaxEntries
                                      /\ data' = [data EXCEPT ![colname] =
                                                     Append(@, value)]
                                      /\ UNCHANGED raised
            ELSE UNCHANGED <<inrow, col, incol, data, raised>>
    /\ UNCHANGED <<nrows, coldata, npieces, earlier>>
    /\ UNCHANGED <<cachevars, dsvars, ovvars>>

\* the page's tokens reach its parser; alone gets the same tokens and starts
\* anew with each page
NextParser ==
    \/ reset /\ alone' = NewParser
    \/ \E tag \in Tags, attrs \in AttrLists :
          handle_starttag(tag, attrs) /\ alone' = starttag_on(alone, tag, attrs)
    \/ \E text \in Texts : handle_data(text) /\ alone' = data_on(alone, text)
    \/ \E tag \in Tags : handle_endtag(tag) /\ alone' = endtag_on(alone, tag)

\* dsout before datespace has run
Pending == [done |-> FALSE, months |-> <<>>]

\* urlout before overview_url has run
NoUrl == [done |-> FALSE, date |-> "", url |-> ""]

Init ==
    /\ InitCache
    /\ InitParser
    /\ dsin = <<>>
    /\ dsout = Pending
    /\ urlout = NoUrl

\* a step of the method that is executing
Step ==
    \/ EnsureNext
    \/ \E page \in Pages : UrlopenOk(page)
    \/ UrlopenReset
    \/ UrlopenOther
    \/ WriteAfterRetry

Next ==
    \/ \E k \in Keys : Construct(k[1], k[2])
    \/ \E a \in Keys, b \in Keys : CallEnsureDates(a[1], a[2], b[1], b[2])
    \/ \E k \in Keys : CallDownloadMonth(k[1], k[2])
    \/ CallDownloadThisMonth
    \/ Step
    \/ Tick

Spec == Init /\ [][Next]_vars

\* The program is sequential and urlopen returns or raises: a method that is
\* executing keeps taking steps.
SpecLive == Init /\ [][Next]_vars /\ WF_vars(Step)

\* ------------------------------------------------------------------------
\* datespace as a pure function: inputs drawn from NumYears years
\* ------------------------------------------------------------------------

Years == 2020..(2020 + NumYears - 1)

InitDS ==
    /\ dsin \in Years \X (1..12) \X Years \X (1..12)
    /\ dsout = Pending
    /\ urlout = NoUrl
    /\ InitCache
    /\ InitParser
    /\ now = KeyOfIndex(2021 * 12 + 11)

\* list(datespace(*dsin))
RunDatespace ==
    /\ dsout = Pending
    /\ dsout' = [done |-> TRUE,
                 months |-> datespace(dsin[1], dsin[2], dsin[3], dsin[4])]
    /\ UNCHANGED <<dsin, urlout>>
    /\ UNCHANGED <<cachevars, parservars, ovvars>>

\* self.overview_url(dsin[1], dsin[2])
RunOverviewUrl ==
    /\ urlout = NoUrl
    /\ urlout' = [done |-> TRUE,
                  date |-> QueryDate(dsin[1], dsin[2]),
                  url  |-> overview_url(dsin[1], dsin[2])]
    /\ UNCHANGED <<dsin, dsout>>
    /\ UNCHANGED <<cachevars, parservars, ovvars>>

NextDS == RunDatespace \/ RunOverviewUrl

SpecDS == InitDS /\ [][NextDS]_vars

\* ------------------------------------------------------------------------
\* overview on a cache directory in any state the cache methods leave: for
\* each month no file, a downloaded page, or the empty file of a download
\* that failed after a retry
\* ------------------------------------------------------------------------

InitOverview ==
    /\ now \in Keys
    /\ files \in [FileNames -> {Absent, Truncated} \cup Pages]
    /\ op = "none"
    /\ range = <<>>
    /\ todo = <<>>
    /\ stack = <<>>
    /\ result = "none"
    /\ dm = NoCall
    /\ log = <<>>
    /\ before = files
    /\ served = [f \in FileNames |-> Absent]
    /\ nensure = [f \in FileNames |-> 0]
    /\ failed = FALSE
    /\ dfs = <<>>
    /\ df = <<>>
    /\ InitParser
    /\ dsin = <<>>
    /\ dsout = Pending
    /\ urlout = NoUrl

NextOverview ==
    \/ \E a \in Keys, b \in Keys : CallOverview(a[1], a[2], b[1], b[2])
    \/ \E a \in Keys : CallOverview(a[1], a[2], NoStop, NoStop)
    \/ OverviewNext
    \/ OverviewReturn

SpecOverview == InitOverview /\ [][NextOverview]_vars

\* ------------------------------------------------------------------------
\* The parser fed any sequence of tokens
\* ------------------------------------------------------------------------

InitP ==
    /\ InitParser
    /\ InitCache
    /\ now = KeyOfIndex(2021 * 12 + 11)
    /\ dsin = <<>>
    /\ dsout = Pending
    /\ urlout = NoUrl

SpecParser == InitP /\ [][NextParser]_vars

\* ------------------------------------------------------------------------
\* Properties of the cache
\* ------------------------------------------------------------------------

FileOf(k) == month_filename(k[1], k[2])

\* chronological order of (year, month) pairs
MonthIndex(year, month) == year * 12 + (month - 1)

Reversed(r) == MonthIndex(r[3], r[4]) < MonthIndex(r[1], r[2])

Count(x, seq) == Cardinality({i \in 1..Len(seq) : seq[i] = x})

\* C1: every cache file that exists holds verbatim the HTML text that a
\* successful fetch of its key returned (the latest one), whatever sequence of
\* download_month / ensure_dates calls was made, retried fetches included.
C1_CacheFileVerbatim ==
    \A f \in FileNames : files[f] # Absent => files[f] = served[f]

\* C2: a download_month call that saw connection resets and then a successful
\* download returns normally to its caller; ConnectionResetError reaches the
\* caller only when all the retries were used up.
C2_ResetRecoveredLocally ==
    /\ (dm.resets >= 1 /\ dm.ok) => dm.outcome \in {"running", "returned"}
    /\ dm.outcome = "ConnectionResetError" => dm.resets = Retry + 1

\* C3: every construction of a BatlabCache (from a month not after the present
\* one) that completes has fetched the present UTC month exactly once, whether
\* or not its file was cached.
C3_ConstructRefetchesCurrentMonth ==
    (op = "__init__" /\ result = "ok" /\ ~Reversed(range))
        => Count(<<range[3], range[4]>>, log) = 1

\* C4: while no fetch fails, ensure_dates (called any number of times, on any
\* ranges) starts at most one download per month, never starts a download
\* for a month whose file is present, and leaves every present file as it is.
C4_EnsureIdempotent ==
    /\ [](~failed => \A f \in FileNames : nensure[f] <= 1)
    /\ [][(op \in {"__init__", "ensure_dates"} /\ op' = op /\ ~failed')
             => /\ \A f \in FileNames :
                      files[f] # Absent => files'[f] = files[f]
                /\ (stack = <<>> /\ stack' # <<>>)
                      => files[FileOf(<<stack'[1].year, stack'[1].month>>)] = Absent]_vars

\* a second ensure_dates over at least two months, all downloaded by an earlier
\* ensure_dates, completed without fetching anything
C4_Witness ==
    /\ op = "ensure_dates" /\ result = "ok" /\ ~failed
    /\ ~Reversed(range)
    /\ Len(datespace(range[1], range[2], range[3], range[4])) >= 2
    /\ log = <<>>
    /\ \A k \in Keys :
          (MonthIndex(range[1], range[2]) <= MonthIndex(k[1], k[2])
             /\ MonthIndex(k[1], k[2]) <= MonthIndex(range[3], range[4]))
          => nensure[FileOf(k)] = 1 /\ files[FileOf(k)] = served[FileOf(k)]

\* C6: ensure_dates on a range whose stop is before its start ends in an error.
C6_ReversedRangeRejected ==
    (op = "ensure_dates" /\ result # "running" /\ Reversed(range))
        => result \notin {"ok"}

\* C7: a download_month call makes at most Retry + 1 attempts; only a
\* connection reset starts another attempt; ConnectionResetError is raised to
\* the caller exactly when all Retry + 1 attempts were reset; any other
\* failure ends the call at once; and the call always terminates.
C7_BoundedRetry ==
    /\ [](dm.attempts <= Retry + 1)
    /\ [](dm.outcome = "ConnectionResetError"
            <=> (dm.resets = Retry + 1 /\ dm.attempts = Retry + 1))
    /\ [](dm.last = "other" => (dm.outcome = "URLError" /\ stack = <<>>))
    /\ [][(stack # <<>> /\ Len(stack') > Len(stack))
             => (dm'.last = "reset" /\ dm'.attempts = dm.attempts + 1)]_vars
    /\ (dm.outcome = "running" ~> dm.outcome # "running")

\* all four attempts were reset and the caller got ConnectionResetError
C7_Witness ==
    /\ dm.attempts = Retry + 1 /\ dm.resets = Retry + 1
    /\ result = "ConnectionResetError"

\* C10: when a call ends in an error, every file that existed before the call
\* is unchanged, the months the call downloaded before the failing one are
\* persisted, and the months after it are as they were.
C10_ErrorKeepsCache ==
    result \in Errors =>
        /\ \A f \in FileNames : before[f] # Absent => files[f] = before[f]
        /\ \A i \in 1..(Len(log) - 1) : files[FileOf(log[i])] \in Pages
        /\ \A i \in 1..Len(todo) : files[FileOf(todo[i])] = before[FileOf(todo[i])]

\* ------------------------------------------------------------------------
\* Properties of datespace
\* ------------------------------------------------------------------------

\* C5: for start <= stop with months in 1..12, datespace yields one pair per
\* month from start to stop inclusive, the i-th being the month i - 1 months
\* after start: ascending, without duplicates or gaps.
C5_DatespaceExact ==
    (dsout.done
       /\ MonthIndex(dsin[1], dsin[2]) <= MonthIndex(dsin[3], dsin[4]))
    => /\ Len(dsout.months) = MonthIndex(dsin[3], dsin[4])
                                - MonthIndex(dsin[1], dsin[2]) + 1
       /\ \A i \in 1..Len(dsout.months) :
             dsout.months[i] = KeyOfIndex(MonthIndex(dsin[1], dsin[2]) + i - 1)

\* (2021,11)..(2022,2) yields (2021,11),(2021,12),(2022,1),(2022,2)
C5_Witness ==
    /\ dsin = <<2021, 11, 2022, 2>>
    /\ dsout.done
    /\ dsout.months = <<<<2021, 11>>, <<2021, 12>>, <<2022, 1>>, <<2022, 2>>>>

\* ------------------------------------------------------------------------
\* Properties of the parser
\* ------------------------------------------------------------------------

\* the row-start tokens of rows that are not recognized
Unrecognized == {a \in AttrLists : ~HasClass(a) \/ ClassOf(a) \notin statuses}

\* C8: whenever the scan is between rows, every field array has exactly one
\* entry per recognized row: all have the length nrows.
C8_OneEntryPerRow ==
    (raised = "none" /\ ~inrow) => \A f \in FieldNames : Len(data[f]) = nrows

\* C9 as stated: between the row-start token of a row that is not recognized
\* and the end of that row, no token appends a value to a field array.
C9_SkippedRowAppendsNothing ==
    [][(skipping /\ skipping') => data' = data]_vars

\* C9 amended: the row-start token of a row that is not recognized changes
\* nothing of the parser, so it never moves it into the in-row state; and when
\* no recognized row is open, the tokens of such a row leave the parser
\* outside and append nothing.
C9_SkippedRowOutside ==
    /\ [][(\E a \in Unrecognized : handle_starttag("tr", a))
             => UNCHANGED <<inrow, col, incol, nrows, coldata, data, raised>>]_vars
    /\ [][(skipping /\ skipping' /\ ~inrow)
             => (~inrow' /\ data' = data)]_vars

\* a row that is not recognized is being read outside any recognized row,
\* after a recognized row has recorded a value
C9_Witness ==
    skipping /\ ~inrow /\ raised = "none" /\ nrows = 1 /\ TotalEntries = 1

\* the column counter names a field of the field table
Named(c) == FieldAt(c) \notin {IndexError, NoField}

\* the text a column accumulator holds
TextOf(acc) == IF acc = None THEN <<>> ELSE acc[2]

\* C14: a column-end token met inside a recognized row while no column is
\* open, and every token of a column beyond the field table, raises no error
\* and records no value.
C14_MalformedDropped ==
    [][(/\ raised = "none"
        /\ inrow
        /\ \/ ~incol /\ handle_endtag("td")
           \/ /\ col >= Len(fields)
              /\ \/ handle_endtag("td")
                 \/ \E text \in Texts : handle_data(text))
          => (raised' = "none" /\ data' = data)]_vars

\* C15: a row-end token met in a recognized row while a column of a named
\* field is open closes that column first, appending its converted text, and
\* then leaves the parser outside with no column open.
C15_RowEndClosesColumn ==
    [][(/\ raised = "none"
        /\ inrow /\ incol
        /\ Named(col)
        /\ coldata # None
        /\ handle_endtag("tr"))
          => LET colname == FieldAt(col)
                 value == colparsers(colname, coldata[2])
             IN  /\ ~inrow' /\ ~incol'
                 /\ \/ Raises(value)
                    \/ data' = [data EXCEPT ![colname] = Append(@, value)]]_vars

\* C16: the parser is always Outside, InRow or InRow+InColumn: a column is
\* open only inside an open row, and while a column is open the column counter
\* is an index of the field table.
C16_ThreeStates ==
    incol => (inrow /\ col >= 0 /\ col < Len(fields))

\* C17: every text token of an open column of a named field is appended to
\* the text the column already holds, and the column-end token records one
\* value, the conversion of the whole concatenation in token order.
C17_TextConcatenated ==
    /\ [][\A text \in Texts :
            (inrow /\ incol /\ Named(col) /\ handle_data(text))
                => coldata' = Str(TextOf(coldata) \o text)]_vars
    /\ [][(inrow /\ incol /\ Named(col) /\ coldata # None /\ handle_endtag("td"))
            => LET colname == FieldAt(col)
                   value == colparsers(colname, coldata[2])
               IN  IF Raises(value)
                   THEN data' = data /\ raised' # "none"
                   ELSE data' = [data EXCEPT ![colname] = Append(@, value)]]_vars

\* the result column was closed after the two text tokens "1" and U+00A0 and
\* holds the one value made of both, in that order
C17_Witness ==
    /\ raised = "none" /\ inrow /\ ~incol /\ col = 2
    /\ data["result"] = <<Str(<<"1", " ">>)>>

\* C18: the column-end token of a column that got no text token since its
\* column-start records the null marker when the position names a field, and
\* the column-end token of a position that names no field records nothing.
C18_EmptyColumnNull ==
    /\ [][(raised = "none" /\ inrow /\ opened /\ handle_endtag("td"))
            => IF Named(col)
               THEN /\ data' = [data EXCEPT ![FieldAt(col)] = Append(@, None)]
                    /\ raised' = "none"
               ELSE data' = data]_vars
    /\ [][(inrow /\ incol /\ col >= 0 /\ ~Named(col) /\ handle_endtag("td"))
            => data' = data]_vars

\* the id column was opened after the first column and closed without text:
\* the null marker is its value
C18_Witness ==
    /\ raised = "none" /\ inrow /\ ~incol /\ ~opened /\ col = 1
    /\ data["id"] = <<None>>

\* C19: a page parsed by its own parser after other pages were parsed gives
\* what the page gives when it is parsed alone: at every token the parser
\* agrees with a parser that was fed the tokens of this page only.
C19_ParsesIsolated ==
    ThisParser = alone

\* the parser of a later page has recorded a value after the parser of an
\* earlier page recorded values
C19_Witness ==
    earlier /\ raised = "none" /\ nrows = 1 /\ TotalEntries = 1

\* ------------------------------------------------------------------------
\* Properties of overview_url (specification SpecDS)
\* ------------------------------------------------------------------------

\* the first day of the month that has index n
FirstDayOfIndex(n) == FirstDay(KeyOfIndex(n)[1], KeyOfIndex(n)[2])

\* C13: the date filter overview_url builds for (year, month) runs from the
\* first day of that month to the first day of the month right after it,
\* which is January of the next year for December; the URL carries it.
C13_NextCalendarMonth ==
    urlout.done =>
        LET n == MonthIndex(dsin[1], dsin[2])
        IN  /\ urlout.date = "between " \o FirstDayOfIndex(n)
                                \o " and " \o FirstDayOfIndex(n + 1)
            /\ urlout.url = overview_base_url \o "storedSearch=0&user=&date=between+"
                                \o FirstDayOfIndex(n) \o "+and+"
                                \o FirstDayOfIndex(n + 1)

\* overview_url has built the filter of a December
C13_Witness ==
    /\ urlout.done
    /\ dsin[1] = 2020 /\ dsin[2] = 12
    /\ urlout.date = "between 2020-12-01 and 2021-1-01"

\* ------------------------------------------------------------------------
\* Properties of overview (specification SpecOverview)
\* ------------------------------------------------------------------------

\* the months of the range r, first to last
MonthsOf(r) ==
    [i \in 1..(MonthIndex(r[3], r[4]) - MonthIndex(r[1], r[2]) + 1) |->
        KeyOfIndex(MonthIndex(r[1], r[2]) + i - 1)]

\* C11: overview makes sure the page of every month of its range is in the
\* cache, fetching it when it is missing, and parses it: when overview has
\* ended, every month of the range has a cache file and has been parsed.
C11_OverviewEnsuresPages ==
    (op = "overview" /\ result # "running" /\ ~Reversed(range))
        => /\ \A i \in 1..Len(MonthsOf(range)) :
                 files[FileOf(MonthsOf(range)[i])] # Absent
           /\ log = MonthsOf(range)

\* C12: the DataFrame overview returns holds the rows of the pages of its
\* range, page after page in range order, every row once and in page order:
\* as many rows as the pages have together, and for a single month the rows
\* of that month's page.
C12_OverviewConcatenates ==
    (op = "overview" /\ result = "ok")
        => LET months == MonthsOf(range)
               frames == [i \in 1..Len(months) |->
                             PageRows(files[FileOf(months[i])])]
           IN  /\ df = Flatten(frames)
               /\ Len(months) = 1 => df = frames[1]

\* overview has returned the rows of two months whose pages differ
C12_Witness ==
    /\ op = "overview" /\ result = "ok"
    /\ Len(log) = 2
    /\ df = <<"A1", "A2", "B1">>

\* ------------------------------------------------------------------------
\* Properties of ensure_dates over a range (specification Spec)
\* ------------------------------------------------------------------------

\* the month had no cache file when the call started
WasMissing(k) == before[FileOf(k)] = Absent

Ensuring == op \in {"__init__", "ensure_dates"}

\* C20: when ensure_dates, called directly or by the constructor up to the
\* month that was current then, returns without error on a range that is not
\* reversed, every month of the range has a cache file and the months that
\* had none at the start are the ones that were fetched, in ascending order;
\* while it runs, a month is fetched only after every month fetched before it
\* has its file.
C20_EnsureCachesRange ==
    /\ (Ensuring /\ result = "ok" /\ ~Reversed(range))
          => /\ \A i \in 1..Len(MonthsOf(range)) :
                   files[FileOf(MonthsOf(range)[i])] # Absent
             /\ log = SelectSeq(MonthsOf(range), WasMissing)
    /\ (Ensuring /\ result \in {"running", "ok"})
          => /\ \A i \in 1..(Len(log) - 1) :
                   /\ files[FileOf(log[i])] # Absent
                   /\ MonthIndex(log[i][1], log[i][2])
                        < MonthIndex(log[i + 1][1], log[i + 1][2])
             /\ \A i \in 1..Len(stack) :
                   <<stack[i].year, stack[i].month>> = log[Len(log)]

\* the constructor has returned after fetching the two months up to the
\* current one, which both were missing
C20_Witness ==
    /\ op = "__init__" /\ result = "ok"
    /\ Len(MonthsOf(range)) = 2
    /\ log = MonthsOf(range)
    /\ \A i \in 1..2 : files[FileOf(MonthsOf(range)[i])] \in Pages

====
